---- MODULE Spec2Model ----
(***************************************************************************)
(* init-python-repo: the configuration model (config.py), the template     *)
(* library (templates.py), the project generator (generator.py) and the    *)
(* command-line front end (cli.py), as one sequential state machine.       *)
(*                                                                         *)
(* Names and version strings are sequences of one-character strings, so    *)
(* that str.replace and str.lower are computed character by character;     *)
(* ToStr turns such a sequence into the string used in paths and content.  *)
(* The file system below the target directory is the function "files"      *)
(* from relative path to content; "log" is the ordered ledger of external  *)
(* commands run and of files written through _write_file.                  *)
(***************************************************************************)
EXTENDS Integers, Sequences, FiniteSets, TLC

VARIABLES
    entry,        \* "cli": create() of cli.py runs; "api": create_project() is called
                  \* directly; "render": one renderer of templates.py is called directly
    args,         \* command-line options of create()
    config,       \* the ProjectConfig (NoConfig until cli.py builds it)
    authorArg,    \* the author argument handed to ProjectGenerator ("" = resolve it)
    tools,        \* executables found in PATH
    utcYear,      \* datetime.now(tz=UTC).year
    rendered,     \* what a renderer called directly returned (EmptyText until then)
    dirExists,    \* the target directory parent/name exists
    files,        \* relative path -> content, below the target directory
    remoteExists, \* a remote repository named reponame exists
    pc,           \* position of the run
    author,       \* ProjectGenerator.author ("" until resolved)
    exc,          \* exception propagating out of create_project
    log,          \* ledger: external commands run and files written, in order
    out,          \* messages printed on the console, in order
    exitCode      \* process exit status (-1 while running)

vars == <<entry, args, config, authorArg, tools, utcYear, rendered,
          dirExists, files, remoteExists, pc, author, exc, log, out, exitCode>>

\* what no step of create() and of generate() changes: the inputs, the
\* environment, and the result of a renderer called on its own
fixedVars == <<entry, args, authorArg, tools, utcYear, rendered>>

-----------------------------------------------------------------------------
(* Bounds *)

MaxNameLen == 2

\* the largest minor version a runtime version string "X.Y" names
MaxMinor == 14

-----------------------------------------------------------------------------
(* Strings as character sequences *)

RECURSIVE ToStr(_)
ToStr(s) == IF s = <<>> THEN "" ELSE Head(s) \o ToStr(Tail(s))

UpperChars == <<"A","B","C","D","E","F","G","H","I","J","K","L","M",
                "N","O","P","Q","R","S","T","U","V","W","X","Y","Z">>
LowerChars == <<"a","b","c","d","e","f","g","h","i","j","k","l","m",
                "n","o","p","q","r","s","t","u","v","w","x","y","z">>

\* str.lower(), one character
LowerChar(c) ==
    IF \E i \in 1..26 : UpperChars[i] = c
    THEN LowerChars[CHOOSE i \in 1..26 : UpperChars[i] = c]
    ELSE c

\* the name compared as typed
StrLowerOmitted(s) == s

\* str.lower()
StrLower(s) == [i \in 1..Len(s) |-> LowerChar(s[i])]

\* str.replace(old, new) for one-character old and new
StrReplace(s, old, new) == [i \in 1..Len(s) |-> IF s[i] = old THEN new ELSE s[i]]

\* str.replace(old, "") for a one-character old
RECURSIVE StrRemove(_, _)
StrRemove(s, old) ==
    IF s = <<>> THEN <<>>
    ELSE IF Head(s) = old THEN StrRemove(Tail(s), old)
    ELSE <<Head(s)>> \o StrRemove(Tail(s), old)

\* str.split(sep) for a one-character sep
RECURSIVE Split(_, _)
Split(s, sep) ==
    IF \A i \in 1..Len(s) : s[i] # sep THEN <<s>>
    ELSE LET k == CHOOSE i \in 1..Len(s) : s[i] = sep /\ \A j \in 1..(i - 1) : s[j] # sep
         IN <<SubSeq(s, 1, k - 1)>> \o Split(SubSeq(s, k + 1, Len(s)), sep)

DigitChars == <<"0", "1", "2", "3", "4", "5", "6", "7", "8", "9">>

\* the strings of decimal digits, those int() is applied to here
IsDigits(s) == s # <<>> /\ \A i \in 1..Len(s) : \E d \in 1..10 : DigitChars[d] = s[i]

\* int(s) of a string of decimal digits
RECURSIVE StrToInt(_)
StrToInt(s) ==
    IF s = <<>> THEN 0
    ELSE 10 * StrToInt(SubSeq(s, 1, Len(s) - 1))
           + ((CHOOSE d \in 1..10 : DigitChars[d] = s[Len(s)]) - 1)

\* str(n) of a natural number, as an f-string and str.format render it
RECURSIVE IntToStr(_)
IntToStr(n) ==
    IF n < 10 THEN <<DigitChars[n + 1]>>
    ELSE IntToStr(n \div 10) \o <<DigitChars[(n % 10) + 1]>>

-----------------------------------------------------------------------------
(* config.py *)

ProjectType == {"library", "api", "cli", "data", "tui"}

License == {"MIT", "Apache-2.0", "GPL-3.0", "BSD-3-Clause", "Unlicense", "None"}

FeatureNames == {"vscode", "docker", "makefile", "changelog", "security",
                 "dependabot", "docker_compose"}

\* FeatureFlags(): every toggle defaults to True
FeatureFlags == [f \in FeatureNames |-> TRUE]

\* FeatureFlags(**given): the dataclass __init__, a keyword that is given
\* replaces the default of its own field
FeatureFlagsWith(given) ==
    [f \in FeatureNames |-> IF f \in DOMAIN given THEN given[f] ELSE FeatureFlags[f]]

\* only the dashes replaced
package_name_dashes_only(name) == StrReplace(name, "-", "_")

\* ProjectConfig.package_name
package_name(name) == StrReplace(StrReplace(name, "-", "_"), ".", "_")

\* the version appended as it is, the dot kept
python_target_dot_kept(python_version) == <<"p", "y">> \o python_version

\* ProjectConfig.python_target
python_target(python_version) == <<"p", "y">> \o StrRemove(python_version, ".")

\* the dict without an entry for tui
RUNTIME_DEPS_without_tui ==
    ("library" :> <<>>)
    @@ ("api" :> <<"fastapi", "uvicorn", "httpx", "pydantic",
                   "pydantic-settings", "python-dotenv", "structlog">>)
    @@ ("cli" :> <<"typer", "rich", "python-dotenv">>)
    @@ ("data" :> <<"polars", "pyarrow", "duckdb", "sqlalchemy", "httpx",
                    "pydantic", "python-dotenv", "structlog">>)

\* RUNTIME_DEPS: the dict, key by key
RUNTIME_DEPS ==
    ("library" :> <<>>)
    @@ ("api" :> <<"fastapi", "uvicorn", "httpx", "pydantic",
                   "pydantic-settings", "python-dotenv", "structlog">>)
    @@ ("cli" :> <<"typer", "rich", "python-dotenv">>)
    @@ ("data" :> <<"polars", "pyarrow", "duckdb", "sqlalchemy", "httpx",
                    "pydantic", "python-dotenv", "structlog">>)
    @@ ("tui" :> <<"textual", "rich", "python-dotenv">>)

\* DEV_DEPS: the dict, key by key
DEV_DEPS ==
    ("library" :> <<>>)
    @@ ("api" :> <<"httpx">>)
    @@ ("cli" :> <<>>)
    @@ ("data" :> <<"faker">>)
    @@ ("tui" :> <<"textual-dev">>)

CORE_DEV_DEPS == <<"ruff", "pytest", "pytest-cov", "mypy", "pre-commit", "pytest-asyncio">>

SECURITY_DEV_DEPS == <<"bandit", "detect-secrets">>

\* ProjectConfig(...) as built by a caller: a dataclass, whose __init__ stores
\* each argument as it is given
ProjectConfig(name, python_version, project_type, license_type, features,
              private_repo, skip_github, skip_vscode_open) ==
    [name |-> name, python_version |-> python_version, project_type |-> project_type,
     license_type |-> license_type, features |-> features, private_repo |-> private_repo,
     skip_github |-> skip_github, skip_vscode_open |-> skip_vscode_open]

NoConfig == [name |-> <<>>]
NoArgs == [reponame |-> <<>>]


-----------------------------------------------------------------------------
(* templates.py: each renderer returns the parts of the text that depend  *)
(* on its arguments, as a record; Text(s) is a fixed text, EmptyText the   *)
(* empty string (and None), the only falsy content.                        *)

Text(s) == [text |-> s]
EmptyText == Text("")

\* dict.get(key, default)
DictGet(d, key, default) == IF key \in DOMAIN d THEN d[key] ELSE default

\* LICENSE_TEMPLATES: each text as its fixed stretches and its replacement
\* fields, in order
LICENSE_TEMPLATES ==
    ("MIT" :> <<"MIT License. Copyright (c) ", "{year}", " ", "{author}",
                ". Permission is hereby granted, free of charge">>)
    @@ ("Apache-2.0" :> <<"Apache License Version 2.0. Copyright ", "{year}", " ", "{author}",
                          ". Licensed under the Apache License, Version 2.0">>)
    @@ ("GPL-3.0" :> <<"GNU GENERAL PUBLIC LICENSE Version 3. Copyright ", "{year}", " ",
                       "{author}", ". This program is free software">>)
    @@ ("BSD-3-Clause" :> <<"BSD 3-Clause License. Copyright (c) ", "{year}", ", ",
                            "{author}", ". Redistribution and use">>)
    @@ ("Unlicense" :> <<"This is free and unencumbered software released into the public domain.">>)
    @@ ("None" :> <<>>)

\* template.format(year=year, author=author)
StrFormat(template, year, authorName) ==
    [i \in 1..Len(template) |->
        CASE template[i] = "{year}" -> ToStr(IntToStr(year))
          [] template[i] = "{author}" -> authorName
          [] OTHER -> template[i]]

\* the template returned as it stands, its fields not filled in
get_license_content_unformatted(license_type, authorName, year) ==
    IF license_type = "None" \/ DictGet(LICENSE_TEMPLATES, license_type, <<>>) = <<>>
    THEN EmptyText
    ELSE [pieces |-> DictGet(LICENSE_TEMPLATES, license_type, <<>>)]

\* get_license_content
get_license_content(license_type, authorName, year) ==
    IF license_type = "None" \/ DictGet(LICENSE_TEMPLATES, license_type, <<>>) = <<>>
    THEN EmptyText
    ELSE [pieces |-> StrFormat(DictGet(LICENSE_TEMPLATES, license_type, <<>>), year, authorName)]

\* the entry point declared for tui as well
pyproject_scripts_tui_too(cfg) ==
    IF cfg.project_type \in {"cli", "api", "tui"}
    THEN <<[key |-> ToStr(package_name(cfg.name)),
            ref |-> ToStr(package_name(cfg.name)) \o ".main:app"]>>
    ELSE <<>>

\* get_pyproject_toml: the [project.scripts] block
pyproject_scripts(cfg) ==
    IF cfg.project_type \in {"cli", "api"}
    THEN <<[key |-> ToStr(package_name(cfg.name)),
            ref |-> ToStr(package_name(cfg.name)) \o ".main:app"]>>
    ELSE <<>>

\* the security tools put in front of the archetype's dev tools
pyproject_dev_deps_security_second(cfg) ==
    CORE_DEV_DEPS \o (IF cfg.features.security THEN SECURITY_DEV_DEPS ELSE <<>>)
        \o DictGet(DEV_DEPS, cfg.project_type, <<>>)

\* get_pyproject_toml: the dev dependency group
pyproject_dev_deps(cfg) ==
    CORE_DEV_DEPS \o DictGet(DEV_DEPS, cfg.project_type, <<>>)
        \o (IF cfg.features.security THEN SECURITY_DEV_DEPS ELSE <<>>)

\* what reading .value of a value that is no member of the enumeration raises
AttributeError == [error |-> "AttributeError"]

\* get_pyproject_toml; config.license_type.value is read unless the license
\* is License.NONE
get_pyproject_toml(cfg) ==
    IF cfg.license_type # "None" /\ cfg.license_type \notin License
    THEN AttributeError
    ELSE [name |-> ToStr(package_name(cfg.name)),
          requires_python |-> ">=" \o ToStr(cfg.python_version),
          dependencies |-> DictGet(RUNTIME_DEPS, cfg.project_type, <<>>),
          license |-> IF cfg.license_type # "None" THEN <<cfg.license_type>> ELSE <<>>,
          wheel_packages |-> <<"src/" \o ToStr(package_name(cfg.name))>>,
          scripts |-> pyproject_scripts(cfg),
          dev |-> pyproject_dev_deps(cfg),
          target_version |-> ToStr(python_target(cfg.python_version)),
          mypy_python_version |-> ToStr(cfg.python_version),
          tool_bandit |-> cfg.features.security]

\* what a renderer raises on a version string it cannot take apart
ValueError == [error |-> "ValueError"]

\* the second version added up to and including minor 13
get_ci_workflow_upto13(python_version) ==
    IF Len(Split(python_version, ".")) # 2 \/ ~IsDigits(Split(python_version, ".")[2])
    THEN ValueError
    ELSE [template |-> "ci.yml",
          versions |-> <<ToStr(python_version)>>
                         \o (IF StrToInt(Split(python_version, ".")[2]) <= 13
                             THEN <<ToStr(Split(python_version, ".")[1]) \o ".13">>
                             ELSE <<>>)]

\* get_ci_workflow: major, minor = python_version.split("."); the matrix is
\* the configured version, then "<major>.13" if int(minor) < 13
get_ci_workflow(python_version) ==
    IF Len(Split(python_version, ".")) # 2 \/ ~IsDigits(Split(python_version, ".")[2])
    THEN ValueError
    ELSE [template |-> "ci.yml",
          versions |-> <<ToStr(python_version)>>
                         \o (IF StrToInt(Split(python_version, ".")[2]) < 13
                             THEN <<ToStr(Split(python_version, ".")[1]) \o ".13">>
                             ELSE <<>>)]

\* get_env_example
get_env_example(project_type) ==
    [template |-> "env.example",
     extra |-> CASE project_type = "api" -> <<"HOST", "PORT", "DATABASE_URL">>
                 [] project_type = "data" -> <<"DATABASE_URL", "AWS_PROFILE">>
                 [] OTHER -> <<>>]

\* the two security hooks rendered whatever the argument
get_precommit_config_security_always(include_security) ==
    [hooks |-> <<"ruff", "ruff-format", "mypy", "bandit", "detect-secrets">>,
     baseline |-> <<".secrets.baseline">>]

\* get_precommit_config: the hook ids, in order
get_precommit_config(include_security) ==
    [hooks |-> <<"ruff", "ruff-format", "mypy">>
                 \o (IF include_security THEN <<"bandit", "detect-secrets">> ELSE <<>>),
     baseline |-> IF include_security THEN <<".secrets.baseline">> ELSE <<>>]

\* get_makefile
get_makefile(project_type, pkg) ==
    [template |-> "Makefile",
     run |-> CASE project_type = "api" -> <<pkg \o ".main:app">>
               [] project_type = "cli" -> <<pkg \o ".main">>
               [] project_type = "tui" -> <<pkg \o ".app">>
               [] OTHER -> <<>>]

\* get_dockerfile
get_dockerfile(cfg) ==
    [template |-> "Dockerfile",
     python |-> ToStr(cfg.python_version),
     cmd |-> CASE cfg.project_type = "api" -> ToStr(package_name(cfg.name)) \o ".main:app"
               [] cfg.project_type = "cli" -> ToStr(package_name(cfg.name)) \o ".main"
               [] cfg.project_type = "tui" -> ToStr(package_name(cfg.name)) \o ".app"
               [] OTHER -> ToStr(package_name(cfg.name))]

\* the compose text returned for api alone
get_docker_compose_api_only(cfg) ==
    IF cfg.project_type = "api"
    THEN [services |-> <<"app", "db">>, ports |-> TRUE,
          database |-> ToStr(package_name(cfg.name))]
    ELSE EmptyText

\* get_docker_compose: "" unless the archetype is api or data
get_docker_compose(cfg) ==
    IF cfg.project_type = "api"
    THEN [services |-> <<"app", "db">>, ports |-> TRUE,
          database |-> ToStr(package_name(cfg.name))]
    ELSE IF cfg.project_type = "data"
    THEN [services |-> <<"app", "db">>, ports |-> FALSE,
          database |-> ToStr(package_name(cfg.name))]
    ELSE EmptyText

\* the entry-point module rendered for api alone
get_main_py_api_only(project_type, pkg) ==
    IF project_type = "api" THEN [template |-> "main.py/fastapi"]
    ELSE EmptyText

\* get_main_py: None unless the archetype is api or cli
get_main_py(project_type, pkg) ==
    IF project_type = "api" THEN [template |-> "main.py/fastapi"]
    ELSE IF project_type = "cli" THEN [template |-> "main.py/typer"]
    ELSE EmptyText

\* str.capitalize() of each "_"-separated word is not modelled character by
\* character; the class name is identified by the identifier it is built from
get_app_py(pkg) == [template |-> "app.py", class_of |-> pkg]

get_pipeline_py == [template |-> "pipeline.py"]

get_tcss(pkg) == [template |-> "tcss"]

\* the tui test importing the entry-point module of api and cli
get_test_file_tui_imports_main(project_type, pkg) ==
    CASE project_type = "api" -> <<"test_api.py", [imports |-> <<pkg \o ".main">>]>>
      [] project_type = "cli" -> <<"test_cli.py", [imports |-> <<pkg \o ".main">>]>>
      [] project_type = "tui" -> <<"test_app.py", [imports |-> <<pkg \o ".main">>]>>
      [] project_type = "data" -> <<"test_pipeline.py", [imports |-> <<pkg \o ".pipeline">>]>>
      [] OTHER -> <<"test_placeholder.py", [imports |-> <<>>]>>

\* get_test_file: <<file name, content>>; imports is the module the test imports
get_test_file(project_type, pkg) ==
    CASE project_type = "api" -> <<"test_api.py", [imports |-> <<pkg \o ".main">>]>>
      [] project_type = "cli" -> <<"test_cli.py", [imports |-> <<pkg \o ".main">>]>>
      [] project_type = "tui" -> <<"test_app.py", [imports |-> <<pkg \o ".app">>]>>
      [] project_type = "data" -> <<"test_pipeline.py", [imports |-> <<pkg \o ".pipeline">>]>>
      [] OTHER -> <<"test_placeholder.py", [imports |-> <<>>]>>

\* get_readme: the lines of the directory tree, as the paths they show
readme_tree(cfg) ==
    <<".github/workflows/ci.yml">>
    \o (IF cfg.features.dependabot THEN <<".github/dependabot.yml">> ELSE <<>>)
    \o <<".pre-commit-config.yaml", ".python-version", ".gitignore", ".env.example",
         ".editorconfig">>
    \o (IF cfg.features.vscode THEN <<".vscode/">> ELSE <<>>)
    \o (IF cfg.features.docker THEN <<"Dockerfile">> ELSE <<>>)
    \o (IF cfg.features.docker_compose /\ cfg.project_type \in {"api", "data"}
        THEN <<"docker-compose.yml">> ELSE <<>>)
    \o (IF cfg.features.makefile THEN <<"Makefile">> ELSE <<>>)
    \o (IF cfg.features.changelog THEN <<"CHANGELOG.md">> ELSE <<>>)
    \o (IF cfg.license_type # "None" THEN <<"LICENSE">> ELSE <<>>)
    \o <<"pyproject.toml", "uv.lock",
         "src/" \o ToStr(package_name(cfg.name)) \o "/__init__.py",
         "src/" \o ToStr(package_name(cfg.name)) \o "/py.typed">>
    \o (CASE cfg.project_type \in {"api", "cli"} ->
               <<"src/" \o ToStr(package_name(cfg.name)) \o "/main.py">>
          [] cfg.project_type = "tui" ->
               <<"src/" \o ToStr(package_name(cfg.name)) \o "/app.py",
                 "src/" \o ToStr(package_name(cfg.name)) \o "/css/">>
          [] cfg.project_type = "data" ->
               <<"src/" \o ToStr(package_name(cfg.name)) \o "/pipeline.py">>
          [] OTHER -> <<>>)
    \o <<"tests/__init__.py">>

\* get_readme
get_readme(cfg) ==
    [title |-> ToStr(package_name(cfg.name)),
     tree |-> readme_tree(cfg),
     make |-> cfg.features.makefile]

-----------------------------------------------------------------------------
(* The ledger, the file system and the outcomes of external commands *)

\* subprocess.run of a command: rc 0, rc 1 (non-zero exit), or -1 when the
\* executable is not in PATH and subprocess.run raises FileNotFoundError
Run(name, arg, rc) == [op |-> "run", name |-> name, arg |-> arg, rc |-> rc]

\* _write_file(relative_path, ...)
Wr(path) == [op |-> "write", name |-> path, arg |-> "", rc |-> 0]

Outcomes(tool) == IF tool \in tools THEN {0, 1} ELSE {-1}

NoExc == [type |-> "none", cmd |-> ""]

\* the exception subprocess.run(..., check=True) raises for a return code
RunError(name, rc) ==
    [type |-> IF rc = -1 THEN "FileNotFoundError" ELSE "CalledProcessError", cmd |-> name]

\* Path.write_text: create or overwrite one file
WriteFile(fs, path, content) ==
    [q \in (DOMAIN fs) \cup {path} |-> IF q = path THEN content ELSE fs[q]]

\* a list of <<path, content>> writes, applied in order
RECURSIVE WriteFiles(_, _)
WriteFiles(fs, ws) ==
    IF ws = <<>> THEN fs
    ELSE WriteFiles(WriteFile(fs, ws[1][1], ws[1][2]), Tail(ws))

\* Path.unlink of the paths that exist
Unlink(fs, paths) == [q \in (DOMAIN fs) \ paths |-> fs[q]]

WriteLog(ws) == [i \in 1..Len(ws) |-> Wr(ws[i][1])]

NoFiles == [q \in {} |-> EmptyText]

\* what a directory that is already there holds
UserFiles == [q \in {"README.md", "main.py"} |-> Text("user content")]

GitUser == "Ada Lovelace"
GhUser == "Grace Hopper"
ScanOutput == Text("detect-secrets scan stdout")

-----------------------------------------------------------------------------
(* generator.py *)

Pkg == ToStr(package_name(config.name))
SrcDir == "src/" \o Pkg

\* _run with check=False: the return code is not looked at
GenRunUnchecked(here, next, tool, name, arg) ==
    /\ pc = here
    /\ \E rc \in Outcomes(tool) :
         /\ log' = Append(log, Run(name, arg, rc))
         /\ IF rc >= 0
            THEN pc' = next /\ exc' = exc
            ELSE pc' = "raised" /\ exc' = RunError(name, rc)
    /\ UNCHANGED <<fixedVars, config, dirExists, files, remoteExists, author, out, exitCode>>

\* an external command of the generator run through _run(check=True)
GenRun(here, next, tool, name, arg) ==
    /\ pc = here
    /\ \E rc \in Outcomes(tool) :
         /\ log' = Append(log, Run(name, arg, rc))
         /\ IF rc = 0
            THEN pc' = next /\ exc' = exc
            ELSE pc' = "raised" /\ exc' = RunError(name, rc)
    /\ UNCHANGED <<fixedVars, config, dirExists, files, remoteExists, author, out, exitCode>>

\* a step of the generator that only writes files
GenWrite(here, next, ws) ==
    /\ pc = here
    /\ files' = WriteFiles(files, ws)
    /\ log' = log \o WriteLog(ws)
    /\ pc' = next
    /\ UNCHANGED <<fixedVars, config, dirExists, remoteExists, author, exc, out, exitCode>>

\* ProjectGenerator.__init__ and _get_author
ResolveAuthor ==
    /\ pc = "author"
    /\ IF authorArg # ""
       THEN /\ author' = authorArg
            /\ pc' = "mkdir"
            /\ UNCHANGED <<log, exc>>
       ELSE \E r1 \in Outcomes("git") :
              CASE r1 = 0 ->
                     /\ author' = GitUser
                     /\ log' = Append(log, Run("git config user.name", "", 0))
                     /\ pc' = "mkdir"
                     /\ exc' = exc
                [] r1 = -1 ->
                     \* FileNotFoundError is not caught by the except clause
                     /\ author' = author
                     /\ log' = Append(log, Run("git config user.name", "", -1))
                     /\ pc' = "raised"
                     /\ exc' = RunError("git config user.name", -1)
                [] OTHER ->
                     \E r2 \in Outcomes("gh") :
                       /\ log' = log \o <<Run("git config user.name", "", r1),
                                          Run("gh api user", ".name", r2)>>
                       /\ CASE r2 = 0 ->
                                 author' = GhUser /\ pc' = "mkdir" /\ exc' = exc
                            [] r2 = 1 ->
                                 author' = "Your Name" /\ pc' = "mkdir" /\ exc' = exc
                            [] OTHER ->
                                 /\ author' = author
                                 /\ pc' = "raised"
                                 /\ exc' = RunError("gh api user", -1)
    /\ UNCHANGED <<fixedVars, config, dirExists, files, remoteExists, out, exitCode>>

\* generate(): self.path.mkdir(parents=True, exist_ok=True)
Mkdir ==
    /\ pc = "mkdir"
    /\ dirExists' = TRUE
    /\ pc' = "uv_init"
    /\ UNCHANGED <<fixedVars, config, files, remoteExists, author, exc, log, out, exitCode>>

\* _init_uv: uv init leaves its own pyproject.toml, README.md and a hello.py
\* or main.py; the two are removed and .python-version is written
InitUv ==
    /\ pc = "uv_init"
    /\ \E rc \in Outcomes("uv") :
         /\ IF rc = 0
            THEN /\ files' = WriteFile(
                       Unlink(WriteFiles(files, <<<<"pyproject.toml", Text("uv init")>>,
                                                  <<"README.md", Text("uv init")>>>>),
                              {"hello.py", "main.py"}),
                       ".python-version", Text(ToStr(config.python_version)))
                 /\ log' = log \o <<Run("uv init", Pkg, 0), Wr(".python-version")>>
                 /\ pc' = "manifest"
                 /\ exc' = exc
            ELSE /\ files' = files
                 /\ log' = Append(log, Run("uv init", Pkg, rc))
                 /\ pc' = "raised"
                 /\ exc' = RunError("uv init", rc)
    /\ UNCHANGED <<fixedVars, config, dirExists, remoteExists, author, out, exitCode>>

\* _generate_config_files: pyproject.toml; the AttributeError of
\* get_pyproject_toml leaves generate()
WriteManifest ==
    /\ pc = "manifest"
    /\ IF get_pyproject_toml(config) = AttributeError
       THEN /\ pc' = "raised"
            /\ exc' = [type |-> "AttributeError", cmd |-> "get_pyproject_toml"]
            /\ UNCHANGED <<fixedVars, config, dirExists, files, remoteExists, author, log,
                           out, exitCode>>
       ELSE GenWrite("manifest", "uv_lock", <<<<"pyproject.toml", get_pyproject_toml(config)>>>>)

\* _generate_config_files: uv lock (writes uv.lock)
UvLock ==
    /\ pc = "uv_lock"
    /\ \E rc \in Outcomes("uv") :
         /\ log' = Append(log, Run("uv lock", "", rc))
         /\ IF rc = 0
            THEN files' = WriteFile(files, "uv.lock", Text("uv lock")) /\ pc' = "uv_sync" /\ exc' = exc
            ELSE files' = files /\ pc' = "raised" /\ exc' = RunError("uv lock", rc)
    /\ UNCHANGED <<fixedVars, config, dirExists, remoteExists, author, out, exitCode>>

\* uv sync run without looking at its return code
UvSync_unchecked == GenRunUnchecked("uv_sync", "config_files", "uv", "uv sync", "")

\* _generate_config_files: uv sync
UvSync == GenRun("uv_sync", "config_files", "uv", "uv sync", "")

\* _generate_config_files: the other config files
WriteConfigFiles ==
    GenWrite("config_files", "source_files",
             <<<<".gitignore", Text("GITIGNORE")>>,
               <<".env.example", get_env_example(config.project_type)>>,
               <<".editorconfig", Text("EDITORCONFIG")>>,
               <<".pre-commit-config.yaml", get_precommit_config(config.features.security)>>>>)

\* a main.py written for every archetype without a stub of its own
SourceFiles_main_for_library(cfg) ==
    <<<<"src/" \o ToStr(package_name(cfg.name)) \o "/__init__.py", EmptyText>>,
      <<"src/" \o ToStr(package_name(cfg.name)) \o "/py.typed", EmptyText>>>>
    \o (CASE cfg.project_type = "tui" ->
               <<<<"src/" \o ToStr(package_name(cfg.name)) \o "/app.py",
                   get_app_py(ToStr(package_name(cfg.name)))>>,
                 <<"src/" \o ToStr(package_name(cfg.name)) \o "/css/"
                       \o ToStr(package_name(cfg.name)) \o ".tcss",
                   get_tcss(ToStr(package_name(cfg.name)))>>>>
          [] cfg.project_type = "data" ->
               <<<<"src/" \o ToStr(package_name(cfg.name)) \o "/pipeline.py", get_pipeline_py>>>>
          [] OTHER ->
               <<<<"src/" \o ToStr(package_name(cfg.name)) \o "/main.py",
                   [template |-> "main.py/typer"]>>>>)

\* _generate_source_files: the writes, in order
SourceFiles(cfg) ==
    <<<<"src/" \o ToStr(package_name(cfg.name)) \o "/__init__.py", EmptyText>>,
      <<"src/" \o ToStr(package_name(cfg.name)) \o "/py.typed", EmptyText>>>>
    \o (CASE cfg.project_type = "api" ->
               IF get_main_py("api", ToStr(package_name(cfg.name))) # EmptyText
               THEN <<<<"src/" \o ToStr(package_name(cfg.name)) \o "/main.py",
                        get_main_py("api", ToStr(package_name(cfg.name)))>>>>
               ELSE <<>>
          [] cfg.project_type = "cli" ->
               IF get_main_py("cli", ToStr(package_name(cfg.name))) # EmptyText
               THEN <<<<"src/" \o ToStr(package_name(cfg.name)) \o "/main.py",
                        get_main_py("cli", ToStr(package_name(cfg.name)))>>>>
               ELSE <<>>
          [] cfg.project_type = "tui" ->
               <<<<"src/" \o ToStr(package_name(cfg.name)) \o "/app.py",
                   get_app_py(ToStr(package_name(cfg.name)))>>,
                 <<"src/" \o ToStr(package_name(cfg.name)) \o "/css/"
                       \o ToStr(package_name(cfg.name)) \o ".tcss",
                   get_tcss(ToStr(package_name(cfg.name)))>>>>
          [] cfg.project_type = "data" ->
               <<<<"src/" \o ToStr(package_name(cfg.name)) \o "/pipeline.py", get_pipeline_py>>>>
          [] OTHER -> <<>>)

\* _generate_source_files
GenerateSourceFiles == GenWrite("source_files", "test_files", SourceFiles(config))

\* _generate_test_files: the writes, in order
TestFiles(cfg) ==
    <<<<"tests/__init__.py", EmptyText>>,
      <<"tests/" \o get_test_file(cfg.project_type, ToStr(package_name(cfg.name)))[1],
        get_test_file(cfg.project_type, ToStr(package_name(cfg.name)))[2]>>>>

\* _generate_test_files
GenerateTestFiles == GenWrite("test_files", "github_files", TestFiles(config))

\* the Dependabot file written only when the security toggle is on as well
GithubFiles_dependabot_needs_security(cfg) ==
    <<<<".github/workflows/ci.yml", get_ci_workflow(cfg.python_version)>>>>
    \o (IF cfg.features.dependabot /\ cfg.features.security
        THEN <<<<".github/dependabot.yml", Text("DEPENDABOT_CONFIG")>>>> ELSE <<>>)

\* _generate_github_files: the writes, in order
GithubFiles(cfg) ==
    <<<<".github/workflows/ci.yml", get_ci_workflow(cfg.python_version)>>>>
    \o (IF cfg.features.dependabot
        THEN <<<<".github/dependabot.yml", Text("DEPENDABOT_CONFIG")>>>> ELSE <<>>)

\* _generate_github_files; the ValueError of get_ci_workflow leaves generate()
GenerateGithubFiles ==
    /\ pc = "github_files"
    /\ IF get_ci_workflow(config.python_version) = ValueError
       THEN /\ pc' = "raised"
            /\ exc' = [type |-> "ValueError", cmd |-> "get_ci_workflow"]
            /\ UNCHANGED <<fixedVars, config, dirExists, files, remoteExists, author, log,
                           out, exitCode>>
       ELSE GenWrite("github_files", "optional_files", GithubFiles(config))

\* the compose file written for api and data whatever the toggle
ComposeFilesToggleIgnored(cfg) ==
    IF cfg.project_type \in {"api", "data"}
    THEN IF get_docker_compose(cfg) # EmptyText
         THEN <<<<"docker-compose.yml", get_docker_compose(cfg)>>>>
         ELSE <<>>
    ELSE <<>>

\* generate(): the compose file
ComposeFiles(cfg) ==
    IF cfg.features.docker_compose /\ cfg.project_type \in {"api", "data"}
    THEN IF get_docker_compose(cfg) # EmptyText
         THEN <<<<"docker-compose.yml", get_docker_compose(cfg)>>>>
         ELSE <<>>
    ELSE <<>>

\* the license file written without the test for License.NONE
LicenseFilesAlways(cfg, authorName, year) ==
    <<<<"LICENSE", get_license_content(cfg.license_type, authorName, year)>>>>

\* generate(): the license file
LicenseFiles(cfg, authorName, year) ==
    IF cfg.license_type # "None"
    THEN <<<<"LICENSE", get_license_content(cfg.license_type, authorName, year)>>>>
    ELSE <<>>

\* generate(): the files written between _generate_github_files and the
\* security baseline, in order
OptionalFiles(cfg, authorName, year) ==
    (IF cfg.features.vscode
     THEN <<<<".vscode/settings.json", Text("VSCODE_SETTINGS")>>,
            <<".vscode/extensions.json", Text("VSCODE_EXTENSIONS")>>>>
     ELSE <<>>)
    \o (IF cfg.features.docker
        THEN <<<<"Dockerfile", get_dockerfile(cfg)>>, <<".dockerignore", Text("DOCKERIGNORE")>>>>
        ELSE <<>>)
    \o (IF cfg.features.makefile
        THEN <<<<"Makefile", get_makefile(cfg.project_type, ToStr(package_name(cfg.name)))>>>>
        ELSE <<>>)
    \o (IF cfg.features.changelog THEN <<<<"CHANGELOG.md", Text("CHANGELOG")>>>> ELSE <<>>)
    \o LicenseFiles(cfg, authorName, year)
    \o ComposeFiles(cfg)
    \o <<<<"README.md", get_readme(cfg)>>>>

\* generate(): lines 129-159
GenerateOptionalFiles ==
    GenWrite("optional_files",
             IF config.features.security THEN "security_baseline" ELSE "git_init",
             OptionalFiles(config, author, utcYear))

\* the captured output kept whatever the return code (a failed scan prints
\* nothing on stdout)
baseline_stdout_always(rc) == IF rc = 0 THEN ScanOutput ELSE EmptyText

\* _generate_security_baseline: baseline = result.stdout if returncode == 0 else "{}"
baseline_content(rc) == IF rc = 0 THEN ScanOutput ELSE Text("{}")

\* _generate_security_baseline: check=False, the return code selects the content
GenerateSecurityBaseline ==
    /\ pc = "security_baseline"
    /\ \E rc \in Outcomes("uv") :
         /\ IF rc = -1
            THEN /\ log' = Append(log, Run("detect-secrets scan", "", rc))
                 /\ files' = files
                 /\ pc' = "raised"
                 /\ exc' = RunError("detect-secrets scan", rc)
            ELSE /\ log' = log \o <<Run("detect-secrets scan", "", rc), Wr(".secrets.baseline")>>
                 /\ files' = WriteFile(files, ".secrets.baseline", baseline_content(rc))
                 /\ pc' = "git_init"
                 /\ exc' = exc
    /\ UNCHANGED <<fixedVars, config, dirExists, remoteExists, author, out, exitCode>>

\* _finalize: git init
GitInit == GenRun("git_init", "precommit_install", "git", "git init", "")

\* _finalize: pre-commit install; generate() and create_project return
PreCommitInstall == GenRun("precommit_install", "generated", "uv", "pre-commit install", "")

NextGen ==
    \/ ResolveAuthor
    \/ Mkdir
    \/ InitUv
    \/ WriteManifest
    \/ UvLock
    \/ UvSync
    \/ WriteConfigFiles
    \/ GenerateSourceFiles
    \/ GenerateTestFiles
    \/ GenerateGithubFiles
    \/ GenerateOptionalFiles
    \/ GenerateSecurityBaseline
    \/ GitInit
    \/ PreCommitInstall

-----------------------------------------------------------------------------
(* cli.py *)

invalid_names == {"test-repo", "test_repo", "tests", "test"}

Msg(text, arg) == [msg |-> text, arg |-> arg]

\* raise typer.Exit(code), or the interpreter ending on an uncaught exception
Exit(code) == pc' = "exit" /\ exitCode' = code

\* --no-vscode switching off the Docker files as well
BuildFeatures_docker_from_vscode(no) ==
    FeatureFlagsWith([f \in FeatureNames |-> IF f = "docker" THEN ~no["vscode"] /\ ~no[f]
                                              ELSE ~no[f]])

\* FeatureFlags(vscode=not no_vscode, ...), the seven keywords given
BuildFeatures(no) == FeatureFlagsWith([f \in FeatureNames |-> ~no[f]])

\* cli.py: features and config as built from the options
BuildConfig(a) ==
    ProjectConfig(a.reponame, a.python, a.project_type, a.license_type,
                  BuildFeatures(a.no), a.private, a.no_github, a.no_vscode_open)

\* check_prerequisites: which uv, which git
CheckPrerequisites ==
    /\ entry = "cli"
    /\ pc = "start"
    /\ IF "uv" \notin tools
       THEN /\ log' = Append(log, Run("which", "uv", 1))
            /\ out' = Append(out, Msg("ERROR: not found in PATH", "uv"))
            /\ Exit(1)
       ELSE IF "git" \notin tools
       THEN /\ log' = log \o <<Run("which", "uv", 0), Run("which", "git", 1)>>
            /\ out' = Append(out, Msg("ERROR: not found in PATH", "git"))
            /\ Exit(1)
       ELSE /\ log' = log \o <<Run("which", "uv", 0), Run("which", "git", 0)>>
            /\ out' = out
            /\ pc' = "validate"
            /\ exitCode' = exitCode
    /\ UNCHANGED <<fixedVars, config, dirExists, files, remoteExists, author, exc>>

\* the existence test left out
repo_path_exists_omitted == FALSE

\* create(): repo_path.exists()
repo_path_exists == dirExists

\* create(): the existence test, the reserved names, the configuration
Validate ==
    /\ pc = "validate"
    /\ IF repo_path_exists
       THEN /\ out' = Append(out, Msg("ERROR: already exists", ToStr(args.reponame)))
            /\ Exit(1)
            /\ config' = config
       ELSE IF ToStr(StrLower(args.reponame)) \in invalid_names
       THEN /\ out' = Append(out, Msg("ERROR: reserved or invalid", ToStr(args.reponame)))
            /\ Exit(1)
            /\ config' = config
       ELSE /\ config' = BuildConfig(args)
            /\ out' = Append(out, Msg("Creating", ToStr(package_name(args.reponame))))
            /\ pc' = "author"
            /\ exitCode' = exitCode
    /\ UNCHANGED <<fixedVars, dirExists, files, remoteExists, author, exc, log>>

\* create(): the two except clauses around create_project
HandleError ==
    /\ entry = "cli"
    /\ pc = "raised"
    /\ out' = Append(out, IF exc.type = "CalledProcessError"
                          THEN Msg("ERROR: Command failed", exc.cmd)
                          ELSE Msg("ERROR", exc.cmd))
    /\ Exit(1)
    /\ UNCHANGED <<fixedVars, config, dirExists, files, remoteExists, author, exc, log>>

\* an external command of create(); checked: subprocess.run(check=True),
\* whose exception nothing catches
CliRun(here, next, tool, name, arg, checked) ==
    /\ pc = here
    /\ \E rc \in Outcomes(tool) :
         /\ log' = Append(log, Run(name, arg, rc))
         /\ IF rc = 0 \/ (rc = 1 /\ ~checked)
            THEN pc' = next /\ exitCode' = exitCode /\ out' = out
            ELSE Exit(1) /\ out' = Append(out, Msg("Traceback", name))
    /\ UNCHANGED <<fixedVars, config, dirExists, files, remoteExists, author, exc>>

\* a failing test suite ends the run
RunTestsFatal ==
    /\ entry = "cli"
    /\ pc = "generated"
    /\ \E rc \in Outcomes("uv") :
         /\ log' = Append(log, Run("pytest", "", rc))
         /\ CASE rc = 0 -> pc' = "github" /\ exitCode' = exitCode /\ out' = out
              [] rc = 1 -> Exit(1) /\ out' = Append(out, Msg("ERROR: Tests failed", ""))
              [] OTHER -> Exit(1) /\ out' = Append(out, Msg("Traceback", "pytest"))
    /\ UNCHANGED <<fixedVars, config, dirExists, files, remoteExists, author, exc>>

\* create(): uv run pytest
RunTests ==
    /\ entry = "cli"
    /\ pc = "generated"
    /\ \E rc \in Outcomes("uv") :
         /\ log' = Append(log, Run("pytest", "", rc))
         /\ CASE rc = 0 -> pc' = "github" /\ exitCode' = exitCode /\ out' = out
              [] rc = 1 -> /\ pc' = "github"
                           /\ exitCode' = exitCode
                           /\ out' = Append(out, Msg("WARNING: Tests failed", ""))
              [] OTHER -> Exit(1) /\ out' = Append(out, Msg("Traceback", "pytest"))
    /\ UNCHANGED <<fixedVars, config, dirExists, files, remoteExists, author, exc>>

\* gh treated as a prerequisite: its absence ends the run
GithubCheck_gh_required ==
    /\ pc = "github"
    /\ IF args.no_github
       THEN pc' = "vscode" /\ UNCHANGED <<log, out, exitCode>>
       ELSE IF "gh" \notin tools
       THEN /\ log' = Append(log, Run("which", "gh", 1))
            /\ out' = Append(out, Msg("ERROR: not found in PATH", "gh"))
            /\ Exit(1)
       ELSE /\ log' = Append(log, Run("which", "gh", 0))
            /\ out' = out
            /\ pc' = "repo_view"
            /\ exitCode' = exitCode
    /\ UNCHANGED <<fixedVars, config, dirExists, files, remoteExists, author, exc>>

\* create(): if not no_github, which gh
GithubCheck ==
    /\ pc = "github"
    /\ IF args.no_github
       THEN pc' = "vscode" /\ UNCHANGED <<log, out>>
       ELSE IF "gh" \notin tools
       THEN /\ log' = Append(log, Run("which", "gh", 1))
            /\ out' = Append(out, Msg("WARNING: gh CLI not found, skipping GitHub setup", ""))
            /\ pc' = "vscode"
       ELSE /\ log' = Append(log, Run("which", "gh", 0))
            /\ out' = out
            /\ pc' = "repo_view"
    /\ UNCHANGED <<fixedVars, config, dirExists, files, remoteExists, author, exc, exitCode>>

\* the return code of gh repo view read the wrong way round
github_repo_exists_inverted == ~remoteExists

\* github_repo_exists: gh repo view exits 0 when the repository is there
github_repo_exists == remoteExists

\* create(): the remote name collision
RepoView ==
    /\ pc = "repo_view"
    /\ log' = Append(log, Run("gh repo view", ToStr(args.reponame),
                              IF github_repo_exists THEN 0 ELSE 1))
    /\ IF github_repo_exists
       THEN /\ out' = out \o <<Msg("ERROR: GitHub repository already exists", ToStr(args.reponame)),
                               Msg("To delete: gh repo delete", ToStr(args.reponame)),
                               Msg("To clean up: rm -rf", ToStr(args.reponame))>>
            /\ Exit(1)
       ELSE /\ out' = out
            /\ pc' = "repo_create"
            /\ exitCode' = exitCode
    /\ UNCHANGED <<fixedVars, config, dirExists, files, remoteExists, author, exc>>

\* create(): gh repo create
RepoCreate ==
    /\ pc = "repo_create"
    /\ \E rc \in Outcomes("gh") :
         /\ log' = Append(log, Run("gh repo create",
                                   IF args.private THEN "--private" ELSE "--public", rc))
         /\ IF rc = 0
            THEN /\ remoteExists' = TRUE
                 /\ pc' = "git_add"
                 /\ exitCode' = exitCode
                 /\ out' = out
            ELSE /\ remoteExists' = remoteExists
                 /\ Exit(1)
                 /\ out' = Append(out, Msg("Traceback", "gh repo create"))
    /\ UNCHANGED <<fixedVars, config, dirExists, files, author, exc>>

\* the first staging followed by the commit at once
GitAdd_then_commit == CliRun("git_add", "git_commit", "git", "git add", "", TRUE)

\* create(): git add -A
GitAdd == CliRun("git_add", "precommit_run", "git", "git add", "", TRUE)

\* the hook run with check=True
PreCommitRun_checked == CliRun("precommit_run", "git_readd", "uv", "pre-commit run", "", TRUE)

\* create(): pre-commit run --all-files, without check
PreCommitRun == CliRun("precommit_run", "git_readd", "uv", "pre-commit run", "", FALSE)

GitReAdd == CliRun("git_readd", "git_commit", "git", "git add", "", TRUE)

GitCommit == CliRun("git_commit", "git_push", "git", "git commit", "", TRUE)

GitPush == CliRun("git_push", "gh_user", "git", "git push", "", TRUE)

\* get_github_user and the message that follows it
GetGithubUser ==
    /\ pc = "gh_user"
    /\ \E rc \in Outcomes("gh") :
         /\ log' = Append(log, Run("gh api user", ".login", rc))
         /\ out' = IF rc = 0 THEN Append(out, Msg("Pushed", ToStr(args.reponame))) ELSE out
    /\ pc' = "vscode"
    /\ UNCHANGED <<fixedVars, config, dirExists, files, remoteExists, author, exc, exitCode>>

\* create(): code, then open -a "Visual Studio Code"; either may be missing
OpenVSCode ==
    /\ pc = "vscode"
    /\ IF args.no_vscode_open
       THEN UNCHANGED <<log, out>>
       ELSE \E r1 \in {0, 1, -1} :
              IF r1 = 0
              THEN log' = Append(log, Run("code", "", 0)) /\ out' = out
              ELSE \E r2 \in {0, 1, -1} :
                     /\ log' = log \o <<Run("code", "", r1), Run("open -a", "", r2)>>
                     /\ out' = IF r2 = 0 THEN out
                               ELSE Append(out, Msg("Note: VS Code not opened", ""))
    /\ pc' = "summary"
    /\ UNCHANGED <<fixedVars, config, dirExists, files, remoteExists, author, exc, exitCode>>

\* create(): the summary panel; the command returns
Summary ==
    /\ pc = "summary"
    /\ out' = Append(out, Msg("Done", ToStr(args.reponame)))
    /\ Exit(0)
    /\ UNCHANGED <<fixedVars, config, dirExists, files, remoteExists, author, exc, log>>

NextCli ==
    \/ CheckPrerequisites
    \/ Validate
    \/ HandleError
    \/ RunTests
    \/ GithubCheck
    \/ RepoView
    \/ RepoCreate
    \/ GitAdd
    \/ PreCommitRun
    \/ GitReAdd
    \/ GitCommit
    \/ GitPush
    \/ GetGithubUser
    \/ OpenVSCode
    \/ Summary

-----------------------------------------------------------------------------
(* Inputs *)

RECURSIVE SeqsUpTo(_, _)
SeqsUpTo(S, n) ==
    IF n = 0 THEN {<<>>}
    ELSE SeqsUpTo(S, n - 1)
           \cup {Append(s, c) : s \in {t \in SeqsUpTo(S, n - 1) : Len(t) = n - 1}, c \in S}

\* every non-empty name of at most MaxNameLen characters over a letter, a
\* capital and the two separators
ShortNames == SeqsUpTo({"a", "B", "-", "."}, MaxNameLen) \ {<<>>}

ReservedLooking == {<<"t", "e", "s", "t", "s">>,
                    <<"T", "e", "s", "t", "s">>,
                    <<"T", "E", "S", "T">>,
                    <<"t", "e", "s", "t", "-", "r", "e", "p", "o">>,
                    <<"T", "e", "s", "t", "_", "R", "e", "p", "o">>}

ProperNames == {<<"m", "y", "-", "l", "i", "b", ".", "x">>,
                <<"m", "y", "-", "a", "p", "i">>,
                <<"m", "y", ".", "l", "i", "b">>,
                <<"t", "e", "s", "t", "i", "n", "g">>}

Python312 == <<"3", ".", "1", "2">>
Python313 == <<"3", ".", "1", "3">>

\* the version strings "X.Y" for the majors 3 and 4 and every minor up to
\* MaxMinor
Versions == {IntToStr(major) \o <<".">> \o IntToStr(minor) : major \in {3, 4}, minor \in 0..MaxMinor}

\* version strings that are not of the form "X.Y"
MalformedVersions == {<<"3">>, <<"3", ".", "1", "2", ".", "1">>, <<"3", ".", "x">>}

AllFeatureChoices == [FeatureNames -> BOOLEAN]
NoneSuppressed == [f \in FeatureNames |-> FALSE]
AllSuppressed == [f \in FeatureNames |-> TRUE]

Args(names, pythons, types, licenses, nos, no_githubs, privates, no_opens) ==
    [reponame : names, python : pythons, project_type : types, license_type : licenses,
     no : nos, no_github : no_githubs, private : privates, no_vscode_open : no_opens]

AllTools == {"uv", "git", "gh"}

InitWith(entries, argset, authors, toolsets, years, dirs, remotes) ==
    /\ entry \in entries
    /\ args \in argset
    /\ authorArg \in authors
    /\ tools \in toolsets
    /\ utcYear \in years
    /\ dirExists \in dirs
    /\ files = IF dirExists THEN UserFiles ELSE NoFiles
    /\ remoteExists \in remotes
    /\ config = IF entry = "cli" THEN NoConfig ELSE BuildConfig(args)
    /\ pc = IF entry = "cli" THEN "start" ELSE IF entry = "api" THEN "author" ELSE "render"
    /\ rendered = EmptyText
    /\ author = ""
    /\ exc = NoExc
    /\ log = <<>>
    /\ out = <<>>
    /\ exitCode = -1

\* the command line: every archetype, names of every kind, any set of tools
CliArgs ==
    Args(ReservedLooking \cup ProperNames, {Python312}, ProjectType, {"MIT", "None"},
         {NoneSuppressed, AllSuppressed}, BOOLEAN, {TRUE}, BOOLEAN)

\* the command line: every choice of --no-<feature> flags
ToggleArgs ==
    Args({<<"m", "y", "-", "a", "p", "i">>}, {Python312}, {"library", "api"}, {"MIT"},
         AllFeatureChoices, {TRUE}, {TRUE}, {TRUE})

Init ==
    \/ InitWith({"cli"}, CliArgs, {"", "Ada"}, SUBSET AllTools, {2026}, BOOLEAN, BOOLEAN)
    \/ InitWith({"cli"}, ToggleArgs, {"Ada"}, {AllTools}, {2026}, {FALSE}, {FALSE})

Next == NextCli \/ NextGen

Spec == Init /\ [][Next]_vars

\* create_project called directly: every archetype, license and toggle choice
GenArgs ==
    Args({<<"m", "y", "-", "a", "p", "i">>}, {Python312}, ProjectType, License,
         AllFeatureChoices, {TRUE}, {TRUE}, {TRUE})

\* create_project called directly: every short name, any set of tools
NameArgs ==
    Args(ShortNames \cup ProperNames, {Python312, Python313}, ProjectType, {"MIT"},
         {NoneSuppressed}, {TRUE}, {TRUE}, {TRUE})

\* create_project called directly: every version string
VersionArgs ==
    Args({<<"m", "y", "-", "a", "p", "i">>}, Versions \cup MalformedVersions,
         {"library", "cli"}, {"MIT"}, {NoneSuppressed, AllSuppressed}, {TRUE}, {TRUE}, {TRUE})

\* create_project called directly with plain strings for the archetype and
\* the license, members of the enumerations or not
LooseArgs ==
    Args({<<"m", "y", "-", "a", "p", "i">>}, {Python312}, ProjectType \cup {"plugin"},
         {"MIT", "None", "WTFPL"}, {NoneSuppressed, AllSuppressed}, {TRUE}, {TRUE}, {TRUE})

InitGen ==
    \/ InitWith({"api"}, GenArgs, {"Ada"}, {AllTools}, {2026}, {FALSE}, {FALSE})
    \/ InitWith({"api"}, LooseArgs, {"Ada"}, {AllTools}, {2026}, {FALSE}, {FALSE})
    \/ InitWith({"api"}, VersionArgs, {"Ada"}, {AllTools}, {2026}, {FALSE}, {FALSE})
    \/ InitWith({"api"}, NameArgs, {"", "Ada"}, SUBSET AllTools, {2025, 2026}, BOOLEAN, {FALSE})

SpecGen == InitGen /\ [][NextGen]_vars

\* a renderer called directly: every archetype and toggle choice
RenderArgs ==
    Args({<<"m", "y", "-", "a", "p", "i">>}, {Python312}, ProjectType, {"MIT"},
         AllFeatureChoices, {TRUE}, {TRUE}, {TRUE})

InitRender == InitWith({"render"}, RenderArgs, {"Ada"}, {AllTools}, {2026}, {FALSE}, {FALSE})

\* get_docker_compose(config) called on its own
RenderCompose ==
    /\ entry = "render"
    /\ pc = "render"
    /\ rendered' = get_docker_compose(config)
    /\ pc' = "rendered"
    /\ UNCHANGED <<entry, args, config, authorArg, tools, utcYear, dirExists, files,
                   remoteExists, author, exc, log, out, exitCode>>

NextRender == RenderCompose

SpecRender == InitRender /\ [][NextRender]_vars

-----------------------------------------------------------------------------
(* Reading the ledger *)

\* the paths written through _write_file so far
Written == {log[i].name : i \in {j \in 1..Len(log) : log[j].op = "write"}}

\* the command has been started with this return code
RanWith(name, rc) ==
    \E i \in 1..Len(log) : log[i].op = "run" /\ log[i].name = name /\ log[i].rc = rc

\* the command has been attempted
Ran(name) == \E i \in 1..Len(log) : log[i].op = "run" /\ log[i].name = name

Last(q) == q[Len(q)]

\* generate() has gone past the README, the last of its unconditional writes
ReadmeWritten == "README.md" \in Written

-----------------------------------------------------------------------------
(* Properties *)

\* C1: docker-compose.yml is never written unless the docker_compose toggle
\* is true and the archetype is api or data, what is written is never empty,
\* and once generate() has passed the compose step the file has been written
\* exactly when both conditions hold.
C1_ComposeIffToggleAndArchetype ==
    /\ "docker-compose.yml" \in Written =>
          /\ config.features.docker_compose
          /\ config.project_type \in {"api", "data"}
          /\ files["docker-compose.yml"] # EmptyText
    /\ ReadmeWritten =>
          ("docker-compose.yml" \in Written
              <=> (config.features.docker_compose /\ config.project_type \in {"api", "data"}))

C1_Witness ==
    /\ pc = "generated"
    /\ "docker-compose.yml" \in Written
    /\ config.project_type = "data"

\* C2: once generate() has passed the license step, and so after every
\* successful generate(), LICENSE is among the written files exactly when
\* the license choice is not None.
C2_LicenseIffChosen ==
    /\ "LICENSE" \in Written => config.license_type # "None"
    /\ ReadmeWritten => ("LICENSE" \in Written <=> config.license_type # "None")

C2_Witness ==
    /\ pc = "generated"
    /\ config.license_type = "None"
    /\ "LICENSE" \notin Written
    /\ "LICENSE" \notin DOMAIN files

\* the ledger holds nothing but the probes of check_prerequisites
OnlyProbes(l) ==
    \A i \in 1..Len(l) : l[i].op = "run" /\ l[i].name = "which" /\ l[i].arg \in {"uv", "git"}

\* C3: when the target directory exists as create() starts, every step the
\* command takes leaves the directory, its files and the configuration
\* untouched and runs nothing but the prerequisite probes; the existence
\* test ends the run with exit code 1 and the "already exists" error, so the
\* generator is never entered.
C3_ExistingTargetAborts ==
    [][(entry = "cli" /\ dirExists /\ pc \in {"start", "validate"}) =>
          /\ pc' \in {"validate", "exit"}
          /\ (pc' = "exit" => exitCode' = 1)
          /\ (pc = "validate" =>
                /\ pc' = "exit"
                /\ out' = Append(out, Msg("ERROR: already exists", ToStr(args.reponame))))
          /\ files' = files
          /\ files' = UserFiles
          /\ dirExists' = dirExists
          /\ config' = NoConfig
          /\ OnlyProbes(log')]_vars

C3_Witness ==
    /\ pc = "exit"
    /\ exitCode = 1
    /\ Last(out).msg = "ERROR: already exists"
    /\ files = UserFiles
    /\ log = <<Run("which", "uv", 0), Run("which", "git", 0)>>

\* the reserved names of the blocklist, as typed in lower case
ReservedNames == {<<"t", "e", "s", "t", "-", "r", "e", "p", "o">>,
                  <<"t", "e", "s", "t", "_", "r", "e", "p", "o">>,
                  <<"t", "e", "s", "t", "s">>,
                  <<"t", "e", "s", "t">>}

\* two names that differ at most in the case of their letters
SameIgnoringCase(a, b) ==
    /\ Len(a) = Len(b)
    /\ \A i \in 1..Len(a) :
          \/ a[i] = b[i]
          \/ \E k \in 1..26 : {a[i], b[i]} = {UpperChars[k], LowerChars[k]}

IsReserved(name) == \E r \in ReservedNames : SameIgnoringCase(name, r)

\* C4: when uv or git is missing, or the project name is one of test-repo,
\* test_repo, tests, test in any letter case, create() ends with exit code 1
\* at the prerequisite probe or at validation: the target directory is not
\* created, no file is written, the generator is not entered and nothing
\* but the prerequisite probes is run.
C4_MissingToolOrReservedNameAborts ==
    [][(entry = "cli" /\ pc \in {"start", "validate"}
           /\ (~({"uv", "git"} \subseteq tools) \/ IsReserved(args.reponame))) =>
          /\ pc' \in {"validate", "exit"}
          /\ (pc' = "exit" => exitCode' = 1)
          /\ (pc = "start" /\ ~({"uv", "git"} \subseteq tools) => pc' = "exit")
          /\ (pc = "validate" => pc' = "exit")
          /\ dirExists' = dirExists
          /\ files' = files
          /\ config' = NoConfig
          /\ OnlyProbes(log')]_vars

C4_Witness ==
    /\ pc = "exit"
    /\ exitCode = 1
    /\ args.reponame = <<"T", "e", "s", "t", "s">>
    /\ ~dirExists
    /\ files = NoFiles
    /\ Last(out).msg = "ERROR: reserved or invalid"

\* the commands the generator runs with check=True
FailFastCommands == {"uv init", "uv lock", "uv sync", "git init", "pre-commit install"}

\* C5: a fail-fast command of the generator that exits non-zero stays the
\* last entry of the ledger: no later step writes a file or runs a command
\* (no test suite, no remote creation, no editor), generate() has raised
\* CalledProcessError carrying that command, and the command line ends with
\* exit code 1 after printing the failing command.
C5_FailFastAborts ==
    \A i \in 1..Len(log) :
        (log[i].op = "run" /\ log[i].name \in FailFastCommands /\ log[i].rc = 1) =>
           /\ i = Len(log)
           /\ exc = [type |-> "CalledProcessError", cmd |-> log[i].name]
           /\ pc \in {"raised", "exit"}
           /\ (entry = "cli" /\ pc = "exit" =>
                 /\ exitCode = 1
                 /\ Last(out) = Msg("ERROR: Command failed", log[i].name))
           /\ (entry = "api" => pc = "raised")

C5_Witness ==
    /\ entry = "cli"
    /\ pc = "exit"
    /\ exitCode = 1
    /\ Last(log) = Run("uv sync", "", 1)
    /\ Last(out) = Msg("ERROR: Command failed", "uv sync")
    /\ "pyproject.toml" \in Written
    /\ ".gitignore" \notin Written

\* a lookup of _get_author was attempted and did not succeed
LookupFailed(name, arg) ==
    \E i \in 1..Len(log) :
        log[i].op = "run" /\ log[i].name = name /\ log[i].arg = arg /\ log[i].rc # 0

\* C6: author resolution never raises: whatever the outcome of git config
\* user.name and of gh api user (success, non-zero exit, tool absent), no
\* exception of either lookup leaves the constructor, and when both lookups
\* failed the author is "Your Name".
C6_AuthorResolutionNeverRaises ==
    (authorArg = "" /\ pc # "author" /\ pc # "start" /\ pc # "validate") =>
        /\ exc.cmd \notin {"git config user.name", "gh api user"}
        /\ (LookupFailed("git config user.name", "") /\ LookupFailed("gh api user", ".name")
               => author = "Your Name")

\* C7: a secret scan that ran (exit status zero or not) never aborts the
\* generation: .secrets.baseline is written right after it, holding the
\* captured output when the scan exited zero and "{}" otherwise, and the
\* run is at git init or past it.
C7_ScanFailureIsNotFatal ==
    \A i \in 1..Len(log) :
        (log[i].op = "run" /\ log[i].name = "detect-secrets scan" /\ log[i].rc \in {0, 1}) =>
           /\ config.features.security
           /\ Len(log) > i
           /\ log[i + 1] = Wr(".secrets.baseline")
           /\ files[".secrets.baseline"] = (IF log[i].rc = 0 THEN ScanOutput ELSE Text("{}"))
           /\ exc.cmd # "detect-secrets scan"
           /\ (pc = "git_init" \/ Ran("git init"))

C7_Witness ==
    /\ pc = "generated"
    /\ RanWith("detect-secrets scan", 1)
    /\ files[".secrets.baseline"] = Text("{}")
    /\ RanWith("git init", 0)
    /\ RanWith("pre-commit install", 0)

\* the commands of the remote publication and the editor launch
PublishingCommands == {"gh repo create", "git add", "git commit", "git push", "code", "open -a"}

\* the collision step: from the remote check, with the remote there, the
\* run ends with exit code 1, the local directory stays as generated
CollisionExits ==
    (pc = "repo_view" /\ remoteExists) =>
        /\ pc' = "exit"
        /\ exitCode' = 1
        /\ log' = Append(log, Run("gh repo view", ToStr(args.reponame), 0))
        /\ \A c \in PublishingCommands : ~Ran(c)'
        /\ dirExists /\ dirExists' /\ files' = files
        /\ remoteExists'

\* C8 as stated: when remote creation is not suppressed and the remote
\* repository exists as create() comes to the GitHub setup, the run goes to
\* the remote check and from there exits with code 1: gh repo create, git
\* commit, git push and the editor are never invoked, the generated
\* directory is left in place.
C8_RemoteCollisionAlwaysExits ==
    [][/\ (pc = "github" /\ ~args.no_github /\ remoteExists) => pc' = "repo_view"
       /\ CollisionExits]_vars

\* C8 as amended: the same, provided gh is found in PATH.
C8_RemoteCollisionExitsWhenGhPresent ==
    [][/\ (pc = "github" /\ ~args.no_github /\ remoteExists /\ "gh" \in tools) =>
              (pc' = "repo_view" /\ \A c \in PublishingCommands : ~Ran(c)')
       /\ CollisionExits]_vars

C8_Witness ==
    /\ pc = "exit"
    /\ exitCode = 1
    /\ Last(log) = Run("gh repo view", ToStr(args.reponame), 0)
    /\ Last(out).msg = "To clean up: rm -rf"
    /\ "README.md" \in DOMAIN files
    /\ ~Ran("gh repo create")

\* C9: the step that runs a failing test suite leaves the run at the GitHub
\* setup with no exit code set and a warning printed; the step in which
\* both editor launchers fail leaves it at the summary with no exit code
\* set; the summary ends the run with exit code 0; and a run that ends with
\* exit code 0 after failing tests has pushed (when remote creation was not
\* suppressed and gh is there) and has tried the editor (when the launch
\* was not suppressed).
C9_SoftFailuresDoNotStop ==
    /\ [][/\ (pc = "generated" /\ Len(log') = Len(log) + 1
                 /\ Last(log') = Run("pytest", "", 1)) =>
                (pc' = "github" /\ exitCode' = -1
                    /\ out' = Append(out, Msg("WARNING: Tests failed", "")))
          /\ (pc = "vscode" /\ Len(log') = Len(log) + 2
                 /\ Last(log').name = "open -a" /\ Last(log').rc # 0) =>
                (pc' = "summary" /\ exitCode' = -1)
          /\ (pc = "summary") =>
                (pc' = "exit" /\ exitCode' = 0 /\ Last(out').msg = "Done")]_vars
    /\ []((pc = "exit" /\ exitCode = 0 /\ RanWith("pytest", 1)) =>
             /\ (~args.no_github /\ "gh" \in tools => RanWith("git push", 0))
             /\ (~args.no_vscode_open => Ran("code")))

C9_Witness ==
    /\ pc = "exit"
    /\ exitCode = 0
    /\ RanWith("pytest", 1)
    /\ RanWith("git push", 0)
    /\ RanWith("code", -1)
    /\ RanWith("open -a", 1)
    /\ Last(out).msg = "Done"

\* the display name with every "-" and "." replaced by "_"
ExpectedIdentifier(name) ==
    ToStr([i \in 1..Len(name) |-> IF name[i] \in {"-", "."} THEN "_" ELSE name[i]])

\* every path generate() may write for a package identifier
PathsFor(id) ==
    {".python-version", "pyproject.toml", ".gitignore", ".env.example", ".editorconfig",
     ".pre-commit-config.yaml", "tests/__init__.py", "tests/test_api.py", "tests/test_cli.py",
     "tests/test_app.py", "tests/test_pipeline.py", "tests/test_placeholder.py",
     ".github/workflows/ci.yml", ".github/dependabot.yml", ".vscode/settings.json",
     ".vscode/extensions.json", "Dockerfile", ".dockerignore", "Makefile", "CHANGELOG.md",
     "LICENSE", "docker-compose.yml", "README.md", ".secrets.baseline",
     "src/" \o id \o "/__init__.py", "src/" \o id \o "/py.typed", "src/" \o id \o "/main.py",
     "src/" \o id \o "/app.py", "src/" \o id \o "/pipeline.py",
     "src/" \o id \o "/css/" \o id \o ".tcss"}

TestFileOf(t) ==
    CASE t = "api" -> "tests/test_api.py"
      [] t = "cli" -> "tests/test_cli.py"
      [] t = "tui" -> "tests/test_app.py"
      [] t = "data" -> "tests/test_pipeline.py"
      [] OTHER -> "tests/test_placeholder.py"

\* C10: in one generation run the identifier handed to uv init --name, the
\* manifest name and wheel package path, the src/<identifier> directory,
\* the entry-point reference and the import of the generated test file are
\* all the display name with every "-" and "." replaced by "_".
C10_OneIdentifierEverywhere ==
    LET id == ExpectedIdentifier(config.name) IN
    /\ \A i \in 1..Len(log) :
          (log[i].op = "run" /\ log[i].name = "uv init") => log[i].arg = id
    /\ "pyproject.toml" \in Written =>
          /\ files["pyproject.toml"].name = id
          /\ files["pyproject.toml"].wheel_packages = <<"src/" \o id>>
          /\ \A k \in 1..Len(files["pyproject.toml"].scripts) :
                files["pyproject.toml"].scripts[k] = [key |-> id, ref |-> id \o ".main:app"]
          /\ (config.project_type \in {"api", "cli"} => Len(files["pyproject.toml"].scripts) = 1)
    /\ Written \subseteq PathsFor(id)
    /\ "tests/__init__.py" \in Written =>
          {"src/" \o id \o "/__init__.py", "src/" \o id \o "/py.typed"} \subseteq Written
    /\ TestFileOf(config.project_type) \in Written =>
          files[TestFileOf(config.project_type)].imports \in
              {<<>>, <<id \o ".main">>, <<id \o ".app">>, <<id \o ".pipeline">>}

C10_Witness ==
    /\ pc = "generated"
    /\ config.project_type = "api"
    /\ \E i, j \in 1..Len(config.name) : config.name[i] = "-" /\ config.name[j] = "."
    /\ files["tests/test_api.py"].imports = <<ExpectedIdentifier(config.name) \o ".main">>
    /\ ("src/" \o ExpectedIdentifier(config.name) \o "/main.py") \in Written

\* C11: the manifest generate() writes holds a [project.scripts] block, of
\* one entry, exactly when the archetype is api or cli; for library, data
\* and tui it holds none.
C11_ScriptsIffApiOrCli ==
    "pyproject.toml" \in Written =>
        /\ (files["pyproject.toml"].scripts # <<>>) <=> (config.project_type \in {"api", "cli"})
        /\ (config.project_type \in {"library", "data", "tui"} =>
               Len(files["pyproject.toml"].scripts) = 0)
        /\ Len(files["pyproject.toml"].scripts) <= 1

C11_Witness ==
    /\ pc = "generated"
    /\ config.project_type = "tui"
    /\ "pyproject.toml" \in Written
    /\ files["pyproject.toml"].scripts = <<>>
    /\ files["pyproject.toml"].dependencies = RUNTIME_DEPS["tui"]

\* C12: for a configured version "X.Y" the matrix of the CI workflow
\* generate() writes is the configured version followed by "X.13" when the
\* integer Y is below 13, and the configured version alone when Y is 13 or
\* more.
C12_MatrixAddsThirteenBelowThirteen ==
    ".github/workflows/ci.yml" \in Written =>
        /\ Len(files[".github/workflows/ci.yml"].versions) \in {1, 2}
        /\ \A major \in 0..9, minor \in 0..(MaxMinor + 1) :
              config.python_version = IntToStr(major) \o <<".">> \o IntToStr(minor) =>
                 files[".github/workflows/ci.yml"].versions =
                    IF minor < 13
                    THEN <<ToStr(IntToStr(major)) \o "." \o ToStr(IntToStr(minor)),
                           ToStr(IntToStr(major)) \o ".13">>
                    ELSE <<ToStr(IntToStr(major)) \o "." \o ToStr(IntToStr(minor))>>

C12_Witness ==
    /\ pc = "generated"
    /\ config.python_version = <<"4", ".", "9">>
    /\ files[".github/workflows/ci.yml"].versions = <<"4.9", "4.13">>

\* the stretches of a rendered text ((none) for a text without fields)
Pieces(content) == IF "pieces" \in DOMAIN content THEN content.pieces ELSE <<>>

\* the rendered text holds this stretch
Contains(content, piece) == \E i \in 1..Len(Pieces(content)) : Pieces(content)[i] = piece

\* the licenses whose text carries a copyright line
CopyrightLicenses == {"MIT", "Apache-2.0", "GPL-3.0", "BSD-3-Clause"}

\* C13 as stated: for every license other than None the LICENSE file that
\* generate() writes holds the current UTC year and the resolved author.
C13_LicenseHoldsYearAndAuthor ==
    ("LICENSE" \in Written /\ config.license_type # "None") =>
        /\ Contains(files["LICENSE"], ToStr(IntToStr(utcYear)))
        /\ Contains(files["LICENSE"], author)

\* C13 as amended: the LICENSE file written for MIT, Apache-2.0, GPL-3.0 and
\* BSD-3-Clause holds the current UTC year and the resolved author; the one
\* written for the Unlicense is its fixed text and holds neither.
C13_CopyrightLicensesHoldYearAndAuthor ==
    ("LICENSE" \in Written /\ config.license_type # "None") =>
        /\ config.license_type \in CopyrightLicenses =>
              /\ Contains(files["LICENSE"], ToStr(IntToStr(utcYear)))
              /\ Contains(files["LICENSE"], author)
              /\ (utcYear = 2025 => Contains(files["LICENSE"], "2025"))
              /\ (utcYear = 2026 => Contains(files["LICENSE"], "2026"))
              /\ ~Contains(files["LICENSE"], "{year}")
              /\ ~Contains(files["LICENSE"], "{author}")
        /\ config.license_type = "Unlicense" =>
              /\ ~Contains(files["LICENSE"], ToStr(IntToStr(utcYear)))
              /\ ~Contains(files["LICENSE"], author)
              /\ Len(Pieces(files["LICENSE"])) = 1

C13_Witness ==
    /\ pc = "generated"
    /\ config.license_type = "BSD-3-Clause"
    /\ utcYear = 2026
    /\ author = "Ada"
    /\ Contains(files["LICENSE"], "2026")
    /\ Contains(files["LICENSE"], "Ada")

\* the paths below src/<identifier> that have been written
InPackage(id) ==
    Written \cap {"src/" \o id \o "/__init__.py", "src/" \o id \o "/py.typed",
                  "src/" \o id \o "/main.py", "src/" \o id \o "/app.py",
                  "src/" \o id \o "/pipeline.py", "src/" \o id \o "/css/" \o id \o ".tcss"}

Markers(id) == {"src/" \o id \o "/__init__.py", "src/" \o id \o "/py.typed"}

\* C14 as stated: once generate() has written the package source directory
\* it holds __init__.py, py.typed and at most one further file, and for
\* library no further file.
C14_AtMostOneStub ==
    LET id == ExpectedIdentifier(config.name) IN
    InPackage(id) # {} =>
        /\ Markers(id) \subseteq InPackage(id)
        /\ Cardinality(InPackage(id) \ Markers(id)) <= 1
        /\ (config.project_type = "library" => InPackage(id) = Markers(id))

\* C14 as amended: the package source directory holds the two markers and,
\* besides them, main.py for api and cli, pipeline.py for data, app.py
\* together with the stylesheet css/<identifier>.tcss for tui, and nothing
\* for library; the markers are empty and every stub is not.
C14_OneStubModuleAndTuiStylesheet ==
    LET id == ExpectedIdentifier(config.name) IN
    InPackage(id) # {} =>
        /\ InPackage(id) \ Markers(id) =
              CASE config.project_type \in {"api", "cli"} -> {"src/" \o id \o "/main.py"}
                [] config.project_type = "data" -> {"src/" \o id \o "/pipeline.py"}
                [] config.project_type = "tui" ->
                     {"src/" \o id \o "/app.py", "src/" \o id \o "/css/" \o id \o ".tcss"}
                [] OTHER -> {}
        /\ Markers(id) \subseteq InPackage(id)
        /\ \A q \in InPackage(id) : (files[q] = EmptyText) <=> (q \in Markers(id))

C14_Witness ==
    /\ pc = "generated"
    /\ config.project_type = "tui"
    /\ Cardinality(InPackage(ExpectedIdentifier(config.name))) = 4
    /\ files["src/my_api/css/my_api.tcss"] = get_tcss("my_api")

\* the test files of the five archetypes
TestPaths == {"tests/test_api.py", "tests/test_cli.py", "tests/test_app.py",
              "tests/test_pipeline.py", "tests/test_placeholder.py"}

\* the stub modules a generated test may import
StubModules == {"main", "app", "pipeline"}

\* C15: once generate() has written the tests directory it holds the empty
\* package marker and exactly one test file, the one of the archetype
\* (api: test_api.py, cli: test_cli.py, tui: test_app.py, data:
\* test_pipeline.py, library: test_placeholder.py); the module that file
\* imports from the package is main for api and cli, app for tui, pipeline
\* for data, none for library, and its source stub has been written, not
\* empty, in the same run.
C15_OneMatchedTestFile ==
    LET id == ExpectedIdentifier(config.name) IN
    (Written \cap (TestPaths \cup {"tests/__init__.py"}) # {}
        /\ config.project_type \in {"api", "cli", "tui", "data", "library"}) =>
        /\ "tests/__init__.py" \in Written
        /\ files["tests/__init__.py"] = EmptyText
        /\ Written \cap TestPaths =
              {CASE config.project_type = "api" -> "tests/test_api.py"
                 [] config.project_type = "cli" -> "tests/test_cli.py"
                 [] config.project_type = "tui" -> "tests/test_app.py"
                 [] config.project_type = "data" -> "tests/test_pipeline.py"
                 [] config.project_type = "library" -> "tests/test_placeholder.py"}
        /\ \A q \in Written \cap TestPaths :
              /\ files[q].imports =
                    CASE config.project_type \in {"api", "cli"} -> <<id \o ".main">>
                      [] config.project_type = "tui" -> <<id \o ".app">>
                      [] config.project_type = "data" -> <<id \o ".pipeline">>
                      [] config.project_type = "library" -> <<>>
              /\ \A m \in StubModules :
                    files[q].imports = <<id \o "." \o m>> =>
                       /\ ("src/" \o id \o "/" \o m \o ".py") \in Written
                       /\ files["src/" \o id \o "/" \o m \o ".py"] # EmptyText

C15_Witness ==
    /\ pc = "generated"
    /\ config.project_type = "tui"
    /\ config.name = <<"m", "y", ".", "l", "i", "b">>
    /\ Written \cap TestPaths = {"tests/test_app.py"}
    /\ files["tests/test_app.py"].imports = <<"my_lib.app">>
    /\ "src/my_lib/app.py" \in Written

\* a line of the README tree shows the path: the file itself, or the
\* directory line .vscode/ or css/ standing for the files below it
Shows(line, path, id) ==
    \/ line = path
    \/ line = ".vscode/" /\ path \in {".vscode/settings.json", ".vscode/extensions.json"}
    \/ line = "src/" \o id \o "/css/" /\ path = "src/" \o id \o "/css/" \o id \o ".tcss"

\* C16: after a generate() that ran to its end, a file is shown in the
\* directory tree of the written README exactly when generate() wrote it in
\* the same run, the lock file of the package manager aside.
C16_ReadmeTreeInLockstep ==
    LET id == ExpectedIdentifier(config.name) IN
    RanWith("pre-commit install", 0) =>
        /\ \A k \in 1..Len(files["README.md"].tree) :
              files["README.md"].tree[k] # "uv.lock" =>
                 \E q \in Written : Shows(files["README.md"].tree[k], q, id)
        /\ \A q \in PathsFor(id) :
              q \in Written <=>
                 \E k \in 1..Len(files["README.md"].tree) :
                    Shows(files["README.md"].tree[k], q, id)

\* C17: a configuration holding an archetype or a license outside the
\* enumerations does not come to exist: no step of the generator runs a
\* command, writes a file or renders a text for it.
C17_UnrecognizedValuesRejected ==
    (entry = "api"
        /\ (config.project_type \notin ProjectType \/ config.license_type \notin License)) =>
        /\ log = <<>>
        /\ files = NoFiles
        /\ pc # "generated"

\* C18: the first step of generate(), taken for a target directory that is
\* already there, raises the project-already-exists error: no command is
\* run by it or after it and the files of the directory stay as they were.
C18_GenerateRejectsExistingTarget ==
    [][(entry = "api" /\ pc = "mkdir" /\ dirExists) =>
          /\ pc' = "raised"
          /\ exc'.type = "ProjectAlreadyExists"
          /\ log' = log
          /\ files' = files
          /\ files' = UserFiles]_vars

\* no package name occurs twice in the list
NoDuplicate(list) == \A i, j \in 1..Len(list) : list[i] = list[j] => i = j

\* C19: RUNTIME_DEPS and DEV_DEPS both have an entry for each of library,
\* api, cli, data and tui, no list of the catalog names a package twice,
\* and the runtime dependencies of a written manifest are the entry of the
\* configured archetype.
C19_CatalogTotalWithoutDuplicates ==
    /\ \A t \in {"library", "api", "cli", "data", "tui"} :
          /\ t \in DOMAIN RUNTIME_DEPS
          /\ t \in DOMAIN DEV_DEPS
          /\ NoDuplicate(DictGet(RUNTIME_DEPS, t, <<>>))
          /\ NoDuplicate(DictGet(DEV_DEPS, t, <<>>))
    /\ NoDuplicate(CORE_DEV_DEPS)
    /\ NoDuplicate(SECURITY_DEV_DEPS)
    /\ ("pyproject.toml" \in Written /\ config.project_type \in ProjectType) =>
          /\ config.project_type \in DOMAIN RUNTIME_DEPS
          /\ files["pyproject.toml"].dependencies = RUNTIME_DEPS[config.project_type]
          /\ NoDuplicate(files["pyproject.toml"].dependencies)
          /\ (config.project_type # "library" => files["pyproject.toml"].dependencies # <<>>)

C19_Witness ==
    /\ pc = "generated"
    /\ config.project_type = "data"
    /\ Len(files["pyproject.toml"].dependencies) = 8
    /\ files["pyproject.toml"].dependencies[1] = "polars"
    /\ \E k \in 1..Len(files["pyproject.toml"].dev) : files["pyproject.toml"].dev[k] = "faker"

\* C20: for a configured version "X.Y" the runtime tag of the written
\* manifest is "py" followed by X and Y with no dot between them ("3.12"
\* gives "py312", "3.13" gives "py313"), computed from the version string
\* the configuration holds, while the version itself keeps its dot.
C20_TargetIsPyAndVersionWithoutDot ==
    "pyproject.toml" \in Written =>
        /\ \A major \in 0..9, minor \in 0..(MaxMinor + 1) :
              config.python_version = IntToStr(major) \o <<".">> \o IntToStr(minor) =>
                 /\ files["pyproject.toml"].target_version =
                       "py" \o ToStr(IntToStr(major)) \o ToStr(IntToStr(minor))
                 /\ files["pyproject.toml"].mypy_python_version =
                       ToStr(IntToStr(major)) \o "." \o ToStr(IntToStr(minor))
        /\ (config.python_version = Python312 => files["pyproject.toml"].target_version = "py312")
        /\ (config.python_version = Python313 => files["pyproject.toml"].target_version = "py313")

C20_Witness ==
    /\ pc = "generated"
    /\ config.python_version = <<"3", ".", "1", "3">>
    /\ files["pyproject.toml"].target_version = "py313"
    /\ files["pyproject.toml"].requires_python = ">=3.13"

\* C21: there are seven toggles and each defaults to true; toggles given as
\* false (here those of the flags of the run, and no other keyword) leave
\* every other toggle true; the configuration create() builds
\* has each toggle false exactly when its own --no-<feature> flag was
\* given, so with no such flag all seven are true.
C21_TogglesDefaultTrueAndFlagsAreOwn ==
    /\ Cardinality(FeatureNames) = 7
    /\ \A f \in FeatureNames : FeatureFlags[f]
    /\ entry = "cli" =>
          FeatureFlagsWith([f \in {g \in FeatureNames : args.no[g]} |-> FALSE])
             = [f \in FeatureNames |-> ~args.no[f]]
    /\ (entry = "cli" /\ config # NoConfig) =>
          /\ \A f \in FeatureNames : config.features[f] <=> ~args.no[f]
          /\ ((\A f \in FeatureNames : ~args.no[f]) =>
                 Cardinality({f \in DOMAIN config.features : config.features[f]}) = 7)

C21_Witness ==
    /\ entry = "cli"
    /\ pc = "exit"
    /\ exitCode = 0
    /\ {f \in FeatureNames : args.no[f]} = {"vscode"}
    /\ {f \in FeatureNames : ~config.features[f]} = {"vscode"}
    /\ "Dockerfile" \in Written
    /\ ".vscode/settings.json" \notin Written

\* the paths of a list of writes
PathsOf(ws) == {ws[i][1] : i \in 1..Len(ws)}

\* the paths a generate() that runs to its end writes for a configuration
GeneratedPaths(cfg) ==
    {".python-version", "pyproject.toml", ".gitignore", ".env.example", ".editorconfig",
     ".pre-commit-config.yaml"}
    \cup PathsOf(SourceFiles(cfg)) \cup PathsOf(TestFiles(cfg)) \cup PathsOf(GithubFiles(cfg))
    \cup PathsOf(OptionalFiles(cfg, "", 0))
    \cup (IF cfg.features.security THEN {".secrets.baseline"} ELSE {})

\* the files that belong to a toggle
OwnFiles(f) ==
    CASE f = "vscode" -> {".vscode/settings.json", ".vscode/extensions.json"}
      [] f = "docker" -> {"Dockerfile", ".dockerignore"}
      [] f = "makefile" -> {"Makefile"}
      [] f = "changelog" -> {"CHANGELOG.md"}
      [] f = "dependabot" -> {".github/dependabot.yml"}
      [] f = "security" -> {".secrets.baseline"}
      [] f = "docker_compose" -> {"docker-compose.yml"}

\* the configuration with one toggle the other way round
Flip(cfg, f) == [cfg EXCEPT !.features[f] = ~@]

SymDiff(A, B) == (A \ B) \cup (B \ A)

\* C22: the paths written by a generate() that ran to its end are those of
\* its configuration, and against the configuration that differs in one
\* toggle the written paths differ in that toggle's own files and in no
\* other path: in all of them for vscode, docker, makefile, changelog,
\* dependabot and security, and for docker_compose in docker-compose.yml
\* when the archetype is api or data and in nothing otherwise.
C22_TogglesAreOrthogonal ==
    pc = "generated" =>
        /\ Written = GeneratedPaths(config)
        /\ \A f \in FeatureNames :
              /\ SymDiff(Written, GeneratedPaths(Flip(config, f))) \subseteq OwnFiles(f)
              /\ (f # "docker_compose" =>
                    SymDiff(Written, GeneratedPaths(Flip(config, f))) = OwnFiles(f))
              /\ (f = "docker_compose" =>
                    SymDiff(Written, GeneratedPaths(Flip(config, f))) =
                       IF config.project_type \in {"api", "data"}
                       THEN {"docker-compose.yml"} ELSE {})
              /\ (config.features[f] => OwnFiles(f) \cap GeneratedPaths(Flip(config, f)) = {})

C22_Witness ==
    /\ pc = "generated"
    /\ config.project_type = "data"
    /\ {f \in FeatureNames : config.features[f]} = {"docker", "docker_compose"}
    /\ {"Dockerfile", ".dockerignore", "docker-compose.yml"} \subseteq Written
    /\ Written \cap {"Makefile", "CHANGELOG.md", ".secrets.baseline", ".github/dependabot.yml",
                      ".vscode/settings.json"} = {}

\* position i of the ledger comes after an entry e
After(i, e) == \E j \in 1..(i - 1) : log[j] = e

\* C23: in the ledger of generate(), uv lock comes after the write of the
\* manifest, uv sync after a successful uv lock, every write other than
\* .python-version and the manifest after a successful uv sync; git init
\* comes after every write of the configuration and after the secret scan
\* when the security toggle is on, nothing but pre-commit install follows
\* it, pre-commit install comes right after a successful git init and is
\* the last entry.
C23_GenerateOrder ==
    entry = "api" =>
      \A i \in 1..Len(log) :
        /\ (log[i].op = "run" /\ log[i].name = "uv lock") => After(i, Wr("pyproject.toml"))
        /\ (log[i].op = "run" /\ log[i].name = "uv sync") => After(i, Run("uv lock", "", 0))
        /\ (log[i].op = "write" /\ log[i].name \notin {".python-version", "pyproject.toml"}) =>
              After(i, Run("uv sync", "", 0))
        /\ (log[i].op = "run" /\ log[i].name = "git init") =>
              /\ {log[j].name : j \in {k \in 1..(i - 1) : log[k].op = "write"}}
                    = GeneratedPaths(config)
              /\ (config.features.security =>
                    \E j \in 1..(i - 1) : log[j].op = "run" /\ log[j].name = "detect-secrets scan")
              /\ \A j \in (i + 1)..Len(log) :
                    j = i + 1 /\ log[j].op = "run" /\ log[j].name = "pre-commit install"
        /\ (log[i].op = "run" /\ log[i].name = "pre-commit install") =>
              /\ i = Len(log)
              /\ i > 1
              /\ log[i - 1] = Run("git init", "", 0)

C23_Witness ==
    /\ pc = "generated"
    /\ config.features.security
    /\ Len(log) > 2
    /\ log[Len(log)] = Run("pre-commit install", "", 0)
    /\ log[Len(log) - 1] = Run("git init", "", 0)
    /\ log[Len(log) - 2] = Wr(".secrets.baseline")
    /\ log[3] = Wr("pyproject.toml")
    /\ log[4] = Run("uv lock", "", 0)
    /\ log[5] = Run("uv sync", "", 0)

\* entry i of the ledger is a run of the command
IsRun(i, name) == log[i].op = "run" /\ log[i].name = name

\* some entry before i is a run of the command
RunBefore(i, name) == \E j \in 1..(i - 1) : IsRun(j, name)

\* the commands create() runs after create_project has returned
PostGenerationCommands ==
    {"pytest", "gh repo view", "gh repo create", "git add", "pre-commit run", "git commit",
     "git push", "code", "open -a"}

\* C24: in the ledger of create(), every post-generation command comes
\* after a successful generation, and all but the test suite after the
\* test suite; the remote is created after the existence check found none,
\* the commit-hook tool is run once, after the remote was created and the
\* first staging; the commit comes after the hook run and a second
\* staging, the push after a successful commit; no publication command
\* follows the editor launch, and when remote creation is not suppressed
\* and gh is there the editor is launched after a successful push.
C24_PostGenerationOrder ==
    entry = "cli" =>
      \A i \in 1..Len(log) :
        /\ (log[i].op = "run" /\ log[i].name \in PostGenerationCommands) =>
              After(i, Run("pre-commit install", "", 0))
        /\ (log[i].op = "run" /\ log[i].name \in PostGenerationCommands \ {"pytest"}) =>
              RunBefore(i, "pytest")
        /\ IsRun(i, "gh repo view") => After(i, Run("which", "gh", 0))
        /\ IsRun(i, "gh repo create") => After(i, Run("gh repo view", ToStr(args.reponame), 1))
        /\ IsRun(i, "git add") => \E j \in 1..(i - 1) : IsRun(j, "gh repo create") /\ log[j].rc = 0
        /\ IsRun(i, "pre-commit run") =>
              /\ i > 1 /\ log[i - 1] = Run("git add", "", 0)
              /\ \A j \in 1..Len(log) : IsRun(j, "pre-commit run") => j = i
        /\ IsRun(i, "git commit") =>
              /\ i > 2 /\ log[i - 1] = Run("git add", "", 0) /\ IsRun(i - 2, "pre-commit run")
        /\ IsRun(i, "git push") => (i > 1 /\ log[i - 1] = Run("git commit", "", 0))
        /\ IsRun(i, "code") =>
              /\ \A j \in (i + 1)..Len(log) : IsRun(j, "open -a")
              /\ (~args.no_github /\ "gh" \in tools => After(i, Run("git push", "", 0)))

C24_Witness ==
    /\ entry = "cli"
    /\ pc = "exit"
    /\ exitCode = 0
    /\ RanWith("pytest", 0)
    /\ RanWith("gh repo create", 0)
    /\ RanWith("pre-commit run", 1)
    /\ RanWith("git commit", 0)
    /\ RanWith("git push", 0)
    /\ Last(log) = Run("code", "", 0)

\* the name is in the list
InList(list, name) == \E k \in 1..Len(list) : list[k] = name

\* C25: the dev dependency group of the written manifest is the six core
\* dev tools, then the dev tools of the archetype (httpx for api, faker for
\* data, textual-dev for tui, none for library and cli), then bandit and
\* detect-secrets when the security toggle is on and nothing when it is
\* off; the [tool.bandit] block is there exactly when the toggle is on.
C25_DevGroupOrderAndSecurity ==
    "pyproject.toml" \in Written =>
        /\ files["pyproject.toml"].dev =
              <<"ruff", "pytest", "pytest-cov", "mypy", "pre-commit", "pytest-asyncio">>
              \o (CASE config.project_type = "api" -> <<"httpx">>
                    [] config.project_type = "data" -> <<"faker">>
                    [] config.project_type = "tui" -> <<"textual-dev">>
                    [] OTHER -> <<>>)
              \o (IF config.features.security THEN <<"bandit", "detect-secrets">> ELSE <<>>)
        /\ InList(files["pyproject.toml"].dev, "bandit") <=> config.features.security
        /\ InList(files["pyproject.toml"].dev, "detect-secrets") <=> config.features.security
        /\ files["pyproject.toml"].tool_bandit <=> config.features.security

C25_Witness ==
    /\ pc = "generated"
    /\ config.project_type = "data"
    /\ config.features.security
    /\ Len(files["pyproject.toml"].dev) = 9
    /\ files["pyproject.toml"].dev[7] = "faker"
    /\ files["pyproject.toml"].dev[9] = "detect-secrets"
    /\ files["pyproject.toml"].tool_bandit

\* C26 as stated: get_docker_compose returns a non-empty text only when the
\* compose toggle is on and the archetype is api or data; with the toggle
\* off, or for library, cli and tui, it returns the empty text.
C26_ComposeRendererEmptyUnlessToggleAndArchetype ==
    pc = "rendered" =>
        /\ rendered # EmptyText =>
              (config.features.docker_compose /\ config.project_type \in {"api", "data"})
        /\ (~config.features.docker_compose \/ config.project_type \in {"library", "cli", "tui"})
              => rendered = EmptyText

\* C26 as amended: get_docker_compose returns a non-empty text exactly when
\* the archetype is api or data, whatever the compose toggle, with the two
\* services app and db; for library, cli and tui it returns the empty text.
C26_ComposeRendererFollowsArchetypeAlone ==
    pc = "rendered" =>
        /\ rendered # EmptyText <=> config.project_type \in {"api", "data"}
        /\ config.project_type \in {"library", "cli", "tui"} => rendered = EmptyText
        /\ config.project_type \in {"api", "data"} =>
              /\ rendered.services = <<"app", "db">>
              /\ rendered.ports <=> config.project_type = "api"

C26_Witness ==
    /\ pc = "rendered"
    /\ config.project_type = "data"
    /\ ~config.features.docker_compose
    /\ rendered # EmptyText
    /\ rendered.services = <<"app", "db">>

\* the publication commands create() runs with check=True
CheckedPublishing == {"gh repo create", "git add", "git commit", "git push"}

\* C27: a pre-commit run that exits non-zero leaves the run at the second
\* staging with no exit code set, and the entry that follows it in the
\* ledger is git add; a run that ends with exit code 0 after a failed hook
\* run has committed and pushed; a non-zero exit of gh repo create, git
\* add, git commit or git push is the last entry of the ledger and ends
\* the run with exit code 1.
C27_HookRunIgnoredOthersAbort ==
    entry = "cli" =>
      /\ \A i \in 1..Len(log) :
            /\ (IsRun(i, "pre-commit run") /\ log[i].rc # 0) =>
                  /\ (i = Len(log) => pc = "git_readd" /\ exitCode = -1)
                  /\ (i < Len(log) => IsRun(i + 1, "git add"))
            /\ (log[i].op = "run" /\ log[i].name \in CheckedPublishing /\ log[i].rc # 0) =>
                  /\ i = Len(log)
                  /\ pc = "exit"
                  /\ exitCode = 1
                  /\ Last(out) = Msg("Traceback", log[i].name)
      /\ (pc = "exit" /\ exitCode = 0 /\ RanWith("pre-commit run", 1)) =>
            (RanWith("git commit", 0) /\ RanWith("git push", 0))

C27_Witness ==
    /\ entry = "cli"
    /\ pc = "exit"
    /\ exitCode = 0
    /\ RanWith("pre-commit run", 1)
    /\ RanWith("git commit", 0)
    /\ RanWith("git push", 0)
    /\ ~RanWith("pytest", 1)

\* C28: once generate() has written the package source directory,
\* src/<identifier>/main.py has been written, not empty, exactly when the
\* manifest written in the same run holds an entry-point block, and that
\* block refers to <identifier>.main:app.
C28_EntryPointNeverDangles ==
    LET id == ExpectedIdentifier(config.name) IN
    ("src/" \o id \o "/__init__.py") \in Written =>
        /\ "pyproject.toml" \in Written
        /\ ("src/" \o id \o "/main.py") \in Written <=> files["pyproject.toml"].scripts # <<>>
        /\ ("src/" \o id \o "/main.py") \in Written =>
              /\ files["src/" \o id \o "/main.py"] # EmptyText
              /\ files["pyproject.toml"].scripts[1].ref = id \o ".main:app"

C28_Witness ==
    /\ pc = "generated"
    /\ config.project_type = "cli"
    /\ "src/my_api/main.py" \in Written
    /\ files["src/my_api/main.py"] = [template |-> "main.py/typer"]
    /\ files["pyproject.toml"].scripts[1].ref = "my_api.main:app"

\* C29: after a generate() that ran to its end, .secrets.baseline has been
\* written (and is there) exactly when the written commit-hook config holds
\* the detect-secrets hook, which names .secrets.baseline as its baseline,
\* exactly when detect-secrets is in the dev group of the written manifest,
\* and exactly when the security toggle is on.
C29_SecurityToggleConsistent ==
    RanWith("pre-commit install", 0) =>
        /\ ".secrets.baseline" \in Written <=> ".secrets.baseline" \in DOMAIN files
        /\ ".secrets.baseline" \in Written
              <=> InList(files[".pre-commit-config.yaml"].hooks, "detect-secrets")
        /\ InList(files[".pre-commit-config.yaml"].hooks, "detect-secrets")
              <=> files[".pre-commit-config.yaml"].baseline = <<".secrets.baseline">>
        /\ ".secrets.baseline" \in Written
              <=> InList(files["pyproject.toml"].dev, "detect-secrets")
        /\ ".secrets.baseline" \in Written <=> config.features.security

C29_Witness ==
    /\ pc = "generated"
    /\ config.features.security
    /\ ".secrets.baseline" \in Written
    /\ files[".pre-commit-config.yaml"].baseline = <<".secrets.baseline">>
    /\ InList(files[".pre-commit-config.yaml"].hooks, "detect-secrets")
    /\ InList(files["pyproject.toml"].dev, "detect-secrets")

\* the commands of the publication block of create()
PublicationCommands ==
    {"gh repo view", "gh repo create", "git add", "pre-commit run", "git commit", "git push"}

\* C30: with uv and git there and gh absent, the prerequisite check lets the
\* run through; once the test suite has run with remote creation not
\* suppressed and gh absent, the gh lookup failed and the warning is shown,
\* no command of the publication block is ever run, the run goes on to the
\* editor launch (attempted unless suppressed) and ends with exit code 0.
C30_PublicationSkippedWithoutGh ==
    (entry = "cli" /\ "gh" \notin tools) =>
      /\ ({"uv", "git"} \subseteq tools /\ pc # "start") =>
            /\ SubSeq(log, 1, 2) = <<Run("which", "uv", 0), Run("which", "git", 0)>>
            /\ \A k \in 1..Len(out) : out[k].msg # "ERROR: not found in PATH"
      /\ \A i \in 1..Len(log) : ~(log[i].op = "run" /\ log[i].name \in PublicationCommands)
      /\ (Ran("pytest") /\ ~args.no_github /\ pc # "github") =>
            /\ \E i \in 1..Len(log) : log[i] = Run("which", "gh", 1) /\ RunBefore(i, "pytest")
            /\ \E k \in 1..Len(out) :
                  out[k] = Msg("WARNING: gh CLI not found, skipping GitHub setup", "")
            /\ pc \in {"vscode", "summary", "exit"}
            /\ (pc \in {"summary", "exit"} /\ ~args.no_vscode_open) => Ran("code")
            /\ pc = "exit" => exitCode = 0

C30_Witness ==
    /\ entry = "cli"
    /\ "gh" \notin tools
    /\ ~args.no_github
    /\ pc = "exit"
    /\ exitCode = 0
    /\ \E i \in 1..Len(log) : log[i] = Run("which", "gh", 1)
    /\ Ran("code")
    /\ ~Ran("git push")

====
